---- MODULE Spec2Model ----
(***************************************************************************)
(* Model of the upload validation engine of backend/api/routes.py:         *)
(* validate_excel_structure and everything it calls (schema check,         *)
(* population-count patterns, day-sequence validation, fill_missing_values *)
(* and calculate_statistics), applied to the table pandas.read_excel       *)
(* returns for an uploaded sheet; and of the request handlers around it:   *)
(* login and logout (backend/auth/routes.py), upload_file and              *)
(* generate_predictions with the client of the forecasting service         *)
(* (backend/utils/ml_api_client.py), and export_predictions.               *)
(*                                                                         *)
(* Spec validates every sheet of a large family once; Service runs the     *)
(* handlers, in any order, on a few sheets; Exports runs the export        *)
(* requests of two callers, interleaved between writing the file and       *)
(* sending it.                                                             *)
(*                                                                         *)
(* Python lists and pandas Series are TLA+ sequences; the 0-based element  *)
(* i of a list s is At(s, i).  A cell is a record [k, v]:                  *)
(*   k = "nan"     a missing value (NaN), what read_excel gives for an     *)
(*                 empty cell                                              *)
(*   k = "num"     the number v (numeric cells are modelled as integers)   *)
(*   k = "numstr"  a text cell whose text is the decimal numeral of v      *)
(*   k = "str"     any other text; v = 0 is the empty string '', v > 0     *)
(*                 names a text that is not a numeral                      *)
(***************************************************************************)
EXTENDS Integers, Sequences, FiniteSets, TLC

VARIABLES
    df,                 \* the sheet as pd.read_excel returns it
    pc,                 \* "uploaded", then "validated"; "idle" between requests
    data_validation,    \* validate_excel_structure's local of that name
    validation_result,  \* what validate_excel_structure returns
    session,            \* the client's flask session
    temp_files,         \* the temporary directory: path -> sheet
    uploaded_files,     \* the store of that name: file id -> file info
    prediction_results, \* the store of that name: prediction id -> result
    response,           \* the response to the last request
    calls,              \* the calls of ml_client made for the last request
    export_files,       \* the temporary directory: name of an export -> file
    requests            \* the export requests in flight, one per caller

vars == <<df, pc, data_validation, validation_result, session, temp_files,
          uploaded_files, prediction_results, response, calls, export_files,
          requests>>

NaN == [k |-> "nan", v |-> 0]
Num(n) == [k |-> "num", v |-> n]
NumStr(n) == [k |-> "numstr", v |-> n]
Str(id) == [k |-> "str", v |-> id]
EmptyStr == Str(0)

At(s, i) == s[i + 1]

Range(s) == {s[i] : i \in DOMAIN s}

\* routes.py: the fixed shape of a sheet, 24 data rows by 24 columns
NROWS == 24
NCOLS == 24
\* routes.py fill_missing_values: the hour column is regenerated modulo 24
HOURMOD == 24

EXPECTED_COLUMNS ==
    << "Sjutra praznik",
       "Dan u nedelji",
       "Dan u mjesecu",
       "Mjesec",
       "Sat",
       "Temp. min Pg", "Temp. max Pg", "Temp. sr Pg",
       "Temp. min Nk", "Temp. max Nk", "Temp. sr Nk",
       "Temp. min Pv", "Temp. max Pv", "Temp. sr Pv",
       "Temp. min Br", "Temp. max Br", "Temp. sr Br",
       "Temp. min Ul", "Temp. max Ul", "Temp. sr Ul",
       "Temp. min Ct", "Temp. max Ct", "Temp. sr Ct",
       "Prethodna 24h" >>

\* [col for col in EXPECTED_COLUMNS if col.startswith('Temp.')]
temp_columns == SubSeq(EXPECTED_COLUMNS, 6, 23)

---------------------------------------------------------------------------
(* pandas primitives, as far as the code uses them *)

isna(c) == c.k = "nan"

\* Series.fillna(value)
fillna(series, value) ==
    [i \in DOMAIN series |-> IF isna(series[i]) THEN value ELSE series[i]]

\* len(df), len(df.columns)
RowCount(d) == d.nrows
ColCount(d) == Len(d.columns)

\* df[col]: the column of that name
Column(d, col) == d.data[CHOOSE j \in DOMAIN d.columns : d.columns[j] = col]

\* pd.to_numeric(series, errors='coerce'): numbers stay, numerals are parsed,
\* every other text (the empty string included) becomes NaN
to_numeric_cell(c) ==
    CASE c.k = "num" -> c
      [] c.k = "numstr" -> Num(c.v)
      [] OTHER -> NaN

to_numeric(series) == [i \in DOMAIN series |-> to_numeric_cell(series[i])]

\* Series.dropna(), keeping the order
dropna(series) == SelectSeq(series, LAMBDA c : ~isna(c))

\* Series.ffill(): a NaN takes the last value before it that is not NaN
\* (an empty string is a value for pandas and is propagated like any other)
RECURSIVE ffill_from(_, _, _)
ffill_from(series, i, last) ==
    IF i > Len(series) THEN <<>>
    ELSE LET cur == IF isna(series[i]) THEN last ELSE series[i]
         IN  <<cur>> \o ffill_from(series, i + 1, cur)

ffill(series) == ffill_from(series, 1, NaN)

\* Series.first_valid_index(): 0-based index of the first value that is not NaN,
\* -1 standing for None
first_valid_index(series) ==
    IF \A i \in DOMAIN series : isna(series[i]) THEN -1
    ELSE (CHOOSE i \in DOMAIN series :
              /\ ~isna(series[i])
              /\ \A j \in 1..(i - 1) : isna(series[j])) - 1

\* int(x) of a cell: [ok, v]; int() of a text that is not an integer numeral
\* raises ValueError
int_of(c) ==
    CASE c.k = "num" -> [ok |-> TRUE, v |-> c.v]
      [] c.k = "numstr" -> [ok |-> TRUE, v |-> c.v]
      [] OTHER -> [ok |-> FALSE, v |-> 0]

---------------------------------------------------------------------------
(* routes.py *)

count_non_empty(series) ==
    LET series_filled == fillna(series, EmptyStr)
    IN  Cardinality({i \in DOMAIN series_filled : series_filled[i] # EmptyStr})

\* An error message, as the data its f-string interpolates.
Err(type) ==
    [type |-> type, col |-> "", found |-> "", n |-> 0, allowed |-> {}, day |-> 0,
     h1 |-> 0, h2 |-> 0, hours |-> <<>>, values |-> {}, rows |-> <<>>]

\* the concatenation of a list of lists (errors.extend in a loop)
RECURSIVE Concat(_)
Concat(ss) == IF ss = <<>> THEN <<>> ELSE Head(ss) \o Concat(Tail(ss))

\* sorted(set) for a set of integers
RECURSIVE sorted(_)
sorted(S) ==
    IF S = {} THEN <<>>
    ELSE LET m == CHOOSE x \in S : \A y \in S : x <= y
         IN  <<m>> \o sorted(S \ {m})

\* list(range(a, b))
range(a, b) == [i \in 1..(IF b > a THEN b - a ELSE 0) |-> a + i - 1]

Min(S) == CHOOSE x \in S : \A y \in S : x <= y
Max(S) == CHOOSE x \in S : \A y \in S : x >= y


---------------------------------------------------------------------------
(* validate_excel_structure, steps 1 and 2: dimensions, column names and order *)

\* a variant that accepts the expected names in any order
NameMismatchAsSet(actual_columns, i) ==
    i >= Len(actual_columns) \/ At(actual_columns, i) \notin Range(EXPECTED_COLUMNS)

\* the test of the name loop at position i (0-based)
NameMismatch(actual_columns, i) ==
    i >= Len(actual_columns) \/ At(actual_columns, i) # At(EXPECTED_COLUMNS, i)

NameErrors(actual_columns) ==
    Concat([k \in 1..Len(EXPECTED_COLUMNS) |->
        LET i == k - 1
        IN  IF NameMismatch(actual_columns, i)
            THEN << [Err("name") EXCEPT
                       !.n = i + 1,
                       !.col = At(EXPECTED_COLUMNS, i),
                       !.found = IF i < Len(actual_columns)
                                 THEN At(actual_columns, i) ELSE "missing"] >>
            ELSE <<>>])

SchemaErrors(d) ==
    (IF RowCount(d) # NROWS
     THEN << [Err("rows") EXCEPT !.n = RowCount(d)] >> ELSE <<>>)
    \o (IF ColCount(d) # NCOLS
        THEN << [Err("columns") EXCEPT !.n = ColCount(d)] >> ELSE <<>>)
    \o NameErrors(d.columns)

---------------------------------------------------------------------------
(* validate_single_day *)

\* 1. hour sequence within the day
HourStepError(hours, i) ==
    /\ At(hours, i) # At(hours, i - 1) + 1
    /\ ~(At(hours, i - 1) = 24 /\ At(hours, i) = 1)

SequenceErrors(day_rows, day_number) ==
    LET row_indices == [k \in DOMAIN day_rows |-> day_rows[k][1]]
        hours == [k \in DOMAIN day_rows |-> day_rows[k][2]]
    IN  IF Len(hours) > 1
        THEN Concat([k \in 1..(Len(hours) - 1) |->
                 LET i == k
                 IN  IF HourStepError(hours, i)
                     THEN << [Err("sequence") EXCEPT
                                !.day = day_number,
                                !.h1 = At(hours, i - 1),
                                !.h2 = At(hours, i),
                                !.rows = << At(row_indices, i - 1) + 1,
                                            At(row_indices, i) + 1 >>] >>
                     ELSE <<>>])
        ELSE <<>>

\* 2. same-day consistency
same_day_columns ==
    << "Sjutra praznik", "Dan u nedelji", "Dan u mjesecu", "Mjesec" >> \o temp_columns

\* a variant that keeps the missing values
day_values_with_nan(d, col, row_indices) ==
    [k \in DOMAIN row_indices |-> At(Column(d, col), row_indices[k])]

\* the cells of the column on the day's rows that pass
\* pd.notna(val) and val != ''
day_values(d, col, row_indices) ==
    SelectSeq([k \in DOMAIN row_indices |-> At(Column(d, col), row_indices[k])],
              LAMBDA val : ~isna(val) /\ val # EmptyStr)

Inconsistent(values) == Len(values) > 1 /\ Cardinality(Range(values)) > 1

ConsistencyErrors(d, day_rows, day_number) ==
    LET row_indices == [k \in DOMAIN day_rows |-> day_rows[k][1]]
    IN  Concat([c \in DOMAIN same_day_columns |->
            LET col == same_day_columns[c]
            IN  IF col \in Range(d.columns)
                   /\ Inconsistent(day_values(d, col, row_indices))
                THEN << [Err("inconsistent") EXCEPT
                           !.day = day_number,
                           !.col = col,
                           !.values = Range(day_values(d, col, row_indices)),
                           !.rows = [k \in DOMAIN row_indices |->
                                         row_indices[k] + 1]] >>
                ELSE <<>>])

\* a variant that looks for gaps in a day of any length
GapErrorsAnyLength(day_rows, day_number) ==
    LET hours == [k \in DOMAIN day_rows |-> day_rows[k][2]]
    IN  IF Len(hours) > 1
        THEN LET missing_hours ==
                     Range(range(Min(Range(hours)), Max(Range(hours)) + 1))
                         \ Range(hours)
             IN  IF missing_hours # {}
                 THEN << [Err("missing") EXCEPT
                            !.day = day_number,
                            !.hours = sorted(missing_hours)] >>
                 ELSE <<>>
        ELSE <<>>

\* 3. gaps in the day
GapErrors(day_rows, day_number) ==
    LET hours == [k \in DOMAIN day_rows |-> day_rows[k][2]]
    IN  IF Len(hours) > 1
        THEN LET min_hour == Min(Range(hours))
                 max_hour == Max(Range(hours))
                 expected_hours == range(min_hour, max_hour + 1)
                 missing_hours == Range(expected_hours) \ Range(hours)
             IN  IF /\ Len(hours) = Len(expected_hours)
                    /\ hours # expected_hours
                    /\ missing_hours # {}
                 THEN << [Err("missing") EXCEPT
                            !.day = day_number,
                            !.hours = sorted(missing_hours)] >>
                 ELSE <<>>
        ELSE <<>>

validate_single_day(d, day_rows, day_number) ==
    SequenceErrors(day_rows, day_number)
    \o ConsistencyErrors(d, day_rows, day_number)
    \o GapErrors(day_rows, day_number)

---------------------------------------------------------------------------
(* validate_hour_sequence_and_consistency *)

\* a variant that closes a day at hour 24 only
DayEndsAt24(hours_series, i, hour) == hour = 24

\* a variant that closes a day when the hour falls only
DayEndsOnFall(hours_series, i, hour) ==
    /\ i < Len(hours_series) - 1
    /\ ~isna(At(hours_series, i + 1))
    /\ int_of(At(hours_series, i + 1)).v < hour

\* the current row closes the current day
DayEnds(hours_series, i, hour) ==
    \/ hour = 24
    \/ /\ i < Len(hours_series) - 1
       /\ ~isna(At(hours_series, i + 1))
       /\ int_of(At(hours_series, i + 1)).v < hour

\* the loop over enumerate(hours_series); a day row is the pair <<i, hour>>
RECURSIVE GroupDays(_, _, _, _)
GroupDays(hours_series, i, day_groups, current_day) ==
    IF i >= Len(hours_series)
    THEN IF current_day # <<>> THEN Append(day_groups, current_day) ELSE day_groups
    ELSE IF isna(At(hours_series, i))
    THEN GroupDays(hours_series, i + 1, day_groups, current_day)
    ELSE LET hour == int_of(At(hours_series, i)).v
             day == Append(current_day, <<i, hour>>)
         IN  IF DayEnds(hours_series, i, hour)
             THEN GroupDays(hours_series, i + 1, Append(day_groups, day), <<>>)
             ELSE GroupDays(hours_series, i + 1, day_groups, day)

DayGroups(hours_series) == GroupDays(hours_series, 0, <<>>, <<>>)

validate_hour_sequence_and_consistency(d, hours_series) ==
    LET day_groups == DayGroups(hours_series)
    IN  Concat([day_idx \in DOMAIN day_groups |->
            validate_single_day(d, day_groups[day_idx], day_idx)])

---------------------------------------------------------------------------
(* validate_advanced_patterns *)

\* a variant that takes the hours to run from 0 to 23
RangeErrorsZeroBased(valid_hours) ==
    LET invalid_hours == SelectSeq(valid_hours, LAMBDA h : h.v < 0 \/ h.v > 23)
    IN  IF Len(invalid_hours) > 0
        THEN << [Err("range") EXCEPT
                   !.hours = [k \in DOMAIN invalid_hours |-> invalid_hours[k].v]] >>
        ELSE <<>>

RangeErrors(valid_hours) ==
    LET invalid_hours == SelectSeq(valid_hours, LAMBDA h : h.v < 1 \/ h.v > 24)
    IN  IF Len(invalid_hours) > 0
        THEN << [Err("range") EXCEPT
                   !.hours = [k \in DOMAIN invalid_hours |-> invalid_hours[k].v]] >>
        ELSE <<>>

\* a variant that checks the sequence of any two or more hours
RunsSequenceCheckOnAny(valid_hours) == Len(valid_hours) > 1

\* the guard of step 2: all 24 hours are numeric
RunsSequenceCheck(valid_hours) == Len(valid_hours) = 24

validate_advanced_patterns(d) ==
    LET hours_series == to_numeric(Column(d, "Sat"))
        valid_hours == dropna(hours_series)
    IN  IF Len(valid_hours) > 0
        THEN RangeErrors(valid_hours)
             \o (IF RunsSequenceCheck(valid_hours)
                 THEN validate_hour_sequence_and_consistency(d, hours_series)
                 ELSE <<>>)
        ELSE <<>>

---------------------------------------------------------------------------
(* validate_data_patterns *)

\* the population counts each check accepts
HolidayCounts == {1, 2, 24}
HourCounts == {1, 24}
DateCounts == {1, 24}
TempCountsAsDates == {1, 24}
TempCounts == {1, 2, 24}
ConsumptionCounts == {24}

CountError(d, col, allowed) ==
    IF count_non_empty(Column(d, col)) \notin allowed
    THEN << [Err("count") EXCEPT
               !.col = col,
               !.allowed = allowed,
               !.n = count_non_empty(Column(d, col))] >>
    ELSE <<>>

date_columns == << "Dan u mjesecu", "Mjesec", "Dan u nedelji" >>

validate_data_patterns(d) ==
    CountError(d, "Sjutra praznik", HolidayCounts)
    \o CountError(d, "Sat", HourCounts)
    \o Concat([c \in DOMAIN date_columns |-> CountError(d, date_columns[c], DateCounts)])
    \o Concat([c \in DOMAIN temp_columns |-> CountError(d, temp_columns[c], TempCounts)])
    \o CountError(d, "Prethodna 24h", ConsumptionCounts)
    \o validate_advanced_patterns(d)

---------------------------------------------------------------------------
(* fill_missing_values *)

\* EXPECTED_COLUMNS without 'Prethodna 24h' and 'Sat'
repeat_down_columns ==
    SelectSeq(EXPECTED_COLUMNS, LAMBDA col : col # "Prethodna 24h" /\ col # "Sat")

\* a variant that writes hours 1..24
ExpandedHourOneBased(start_hour, i) == ((start_hour + i) % HOURMOD) + 1

\* the value written to the hour cell of row i
ExpandedHour(start_hour, i) == (start_hour + i) % HOURMOD

\* the special handling of the hour column: [raised, series]
FillHours(sat) ==
    IF count_non_empty(sat) = 1
    THEN LET first_hour_index == first_valid_index(sat)
         IN  IF first_hour_index # -1
             THEN LET start_hour == int_of(At(sat, first_hour_index))
                  IN  IF ~start_hour.ok
                      THEN [raised |-> TRUE, series |-> sat]
                      ELSE [raised |-> FALSE,
                            series |-> [k \in DOMAIN sat |->
                                IF k - 1 < 24
                                THEN Num(ExpandedHour(start_hour.v, k - 1))
                                ELSE sat[k]]]
             ELSE [raised |-> FALSE, series |-> sat]
    ELSE [raised |-> FALSE, series |-> sat]

\* a variant that repeats the first valid entry of the column downwards
RepeatFirst(series) ==
    LET first == first_valid_index(series)
    IN  [k \in DOMAIN series |->
            IF isna(series[k]) /\ first # -1 /\ k - 1 > first
            THEN At(series, first) ELSE series[k]]

\* a variant that copies into each blank cell (NaN or '') the cell right
\* above it, one step per call
RepeatOneStep(series) ==
    [k \in DOMAIN series |->
        IF (isna(series[k]) \/ series[k] = EmptyStr) /\ k > 1
        THEN series[k - 1] ELSE series[k]]

\* the forward fill of one of the repeat_down_columns
RepeatDown(series) == ffill(series)

\* [raised, df]: raised when int() of the hour seed raises ValueError
fill_missing_values(d) ==
    LET hours == FillHours(Column(d, "Sat"))
        filled(j) ==
            IF d.columns[j] \in Range(repeat_down_columns) THEN RepeatDown(d.data[j])
            ELSE IF d.columns[j] = "Sat" THEN hours.series
            ELSE d.data[j]
    IN  [raised |-> hours.raised,
         df |-> [d EXCEPT !.data = [j \in DOMAIN d.data |-> fillna(filled(j), EmptyStr)]]]

\* DataFrame.to_dict('records'): one mapping from column name to cell per row
to_dict_records(d) ==
    [i \in 1..d.nrows |->
        [col \in Range(d.columns) |-> Column(d, col)[i]]]

---------------------------------------------------------------------------
(* calculate_statistics *)

RECURSIVE SumSeq(_)
SumSeq(s) == IF s = <<>> THEN 0 ELSE Head(s) + SumSeq(Tail(s))

\* a float result: NaN, or the quotient num / den
Float(num, den) == [nan |-> FALSE, num |-> num, den |-> den]
FloatNaN == [nan |-> TRUE, num |-> 0, den |-> 1]

calculate_statistics(d) ==
    LET consumption_data == dropna(to_numeric(Column(d, "Prethodna 24h")))
        values == [k \in DOMAIN consumption_data |-> consumption_data[k].v]
        n == Len(values)
    IN  [totalRows |-> RowCount(d),
         totalColumns |-> ColCount(d),
         avgConsumption |-> IF n = 0 THEN FloatNaN ELSE Float(SumSeq(values), n),
         peakConsumption |-> IF n = 0 THEN FloatNaN ELSE Float(Max(Range(values)), 1),
         minConsumption |-> IF n = 0 THEN FloatNaN ELSE Float(Min(Range(values)), 1),
         totalConsumption |-> Float(SumSeq(values), 1)]

---------------------------------------------------------------------------
(* validate_excel_structure *)

\* a variant that returns early on a wrong row or column count only
StructureWrongDimensions(d, errors) == RowCount(d) # NROWS \/ ColCount(d) # NCOLS

\* "If basic structure is wrong, return early"
StructureWrong(d, errors) == errors # <<>>

\* df[col] raises KeyError for a column the sheet does not have
KeyError(d) == \E k \in DOMAIN EXPECTED_COLUMNS : EXPECTED_COLUMNS[k] \notin Range(d.columns)

\* the except clause: any exception becomes the one 'Failed to read' error
ReadFailed == [is_valid |-> FALSE, errors |-> << Err("read_failed") >>]

NoResult == [none |-> TRUE]

\* the local data_validation (line 155), NoResult when the line is not reached
DataValidation(d) ==
    IF StructureWrong(d, SchemaErrors(d)) \/ KeyError(d) THEN NoResult
    ELSE [errors |-> validate_data_patterns(d)]

\* the return value, given the value of data_validation
Return(d, validation) ==
    LET errors == SchemaErrors(d)
    IN  IF StructureWrong(d, errors)
        THEN [is_valid |-> FALSE, errors |-> errors]
        ELSE IF KeyError(d) THEN ReadFailed
        ELSE LET filled == fill_missing_values(d)
             IN  IF filled.raised THEN ReadFailed
                 ELSE [is_valid |-> Len(validation.errors) = 0,
                       errors |-> validation.errors,
                       preview_data |-> to_dict_records(filled.df),
                       statistics |-> calculate_statistics(d)]

validate_excel_structure(d) == Return(d, DataValidation(d))

---------------------------------------------------------------------------
(* The uploaded sheets: what pd.read_excel may return.  read_excel turns   *)
(* every empty cell and every empty text into NaN, so a sheet holds no ''. *)

\* how far the row and column counts of a sheet stray from 24
ShapeDelta == 1

HOUR_COL == 4
CONSUMPTION_COL == 23

\* a frame from its cells, Cell(j, i) being column j, row i (both 0-based)
Frame(nrows, columns, Cell(_, _)) ==
    [nrows |-> nrows,
     columns |-> columns,
     data |-> [j \in 1..Len(columns) |-> [i \in 1..nrows |-> Cell(j - 1, i - 1)]]]

\* hour of row i in the run h, h+1, ..., 24, 1, ...
CyclicHour(h, i) == ((h - 1 + i) % 24) + 1

\* the cells of the columns a scenario does not vary
BaseCell(base, j, i) ==
    IF j = CONSUMPTION_COL THEN Num(100 + i)
    ELSE IF j = HOUR_COL THEN Num(CyclicHour(1, i))
    ELSE CASE base = "full" -> Num(1)
           [] base = "seed" -> IF i = 0 THEN Num(1) ELSE NaN
           [] base = "three" -> IF i < 3 THEN Num(1) ELSE NaN

\* headers: right, two neighbours swapped, or one name replaced
HeaderVariants ==
    {<<"ok", 0>>} \cup {<<"swap", i>> : i \in 0..22} \cup {<<"rename", i>> : i \in 0..23}

\* the variants tried on sheets of every shape
SomeHeaderVariants ==
    {<<"ok", 0>>, <<"swap", 0>>, <<"swap", 22>>, <<"rename", 4>>, <<"rename", 23>>}

HeaderName(variant, j) ==
    IF j >= 24 THEN "Extra" \o ToString(j)
    ELSE CASE variant[1] = "ok" -> At(EXPECTED_COLUMNS, j)
           [] variant[1] = "swap" ->
                IF j = variant[2] THEN At(EXPECTED_COLUMNS, j + 1)
                ELSE IF j = variant[2] + 1 THEN At(EXPECTED_COLUMNS, j - 1)
                ELSE At(EXPECTED_COLUMNS, j)
           [] variant[1] = "rename" ->
                IF j = variant[2] THEN "Unnamed: " \o ToString(j)
                ELSE At(EXPECTED_COLUMNS, j)

Header(ncols, variant) == [k \in 1..ncols |-> HeaderName(variant, k - 1)]

Shapes == (24 - ShapeDelta)..(24 + ShapeDelta)

\* a sheet of any shape and header, with good or bad contents
SchemaTable(n, m, v, b) == Frame(n, Header(m, v), LAMBDA j, i : BaseCell(b, j, i))

\* one column with k populated cells, at the head or at the tail
\* one column of each group, and the counts around the allowed ones
SomeColumns == {0, 1, HOUR_COL, 5, 22, CONSUMPTION_COL}
SomeCounts == {0, 1, 2, 3, 23, 24}

PopulationTable(c, k, mode) ==
    Frame(24, EXPECTED_COLUMNS, LAMBDA j, i :
        IF j = c
        THEN IF (mode[1] = "head" /\ i < k) \/ (mode[1] = "tail" /\ i >= 24 - k)
             THEN mode[2] ELSE NaN
        ELSE BaseCell(mode[3], j, i))

\* a cyclic hour run, and one same-day column that changes value at row p,
\* populated on every stride-th row
\* stride, value before row p, value from row p on
StepModes ==
    {<<1, Num(1), Num(2)>>, <<5, Num(1), Num(0)>>,
     <<5, Num(1), NumStr(1)>>, <<1, Num(0), Str(1)>>}

StepTable(h, c, p, mode) ==
    Frame(24, EXPECTED_COLUMNS, LAMBDA j, i :
        IF j = HOUR_COL THEN Num(CyclicHour(h, i))
        ELSE IF j = c
        THEN IF i % mode[1] # 0 THEN NaN ELSE IF i < p THEN mode[2] ELSE mode[3]
        ELSE BaseCell("full", j, i))


\* a single hour seed at row r
SeedCells == {Num(0), Num(10), Num(23), Num(24), Num(-3), NumStr(7), Str(1)}

SeedTable(r, s, b) ==
    Frame(24, EXPECTED_COLUMNS, LAMBDA j, i :
        IF j = HOUR_COL THEN (IF i = r THEN s ELSE NaN) ELSE BaseCell(b, j, i))

HourTable(Hour(_)) ==
    Frame(24, EXPECTED_COLUMNS, LAMBDA j, i :
        IF j = HOUR_COL THEN Hour(i) ELSE BaseCell("full", j, i))

\* a cyclic run with the hour of row skip left out (skip > 0) and the hour of
\* row dup - 1 repeated at row dup (dup > 0)
BentHour(h, skip, dup, i) ==
    CyclicHour(h, i + (IF skip > 0 /\ i >= skip THEN 1 ELSE 0)
                    - (IF dup > 0 /\ i >= dup THEN 1 ELSE 0))

BentTable(h, skip, dup) == HourTable(LAMBDA i : Num(BentHour(h, skip, dup, i)))

\* a cyclic run with one cell replaced
CorruptCells == {NaN, Str(1), Num(0), Num(25), NumStr(3)}

CorruptTable(h, p, x) ==
    HourTable(LAMBDA i : IF i = p THEN x ELSE Num(CyclicHour(h, i)))

\* k < 24 hours, in no order, next to a holiday flag that changes at row 2
PartialHour(mode, i) ==
    CASE mode = "down" -> Num(24 - i)
      [] mode = "same" -> Num(7)
      [] mode = "odd" -> Num(((2 * i) % 24) + 1)
      [] mode = "high" -> Num(30 + i)

PartialTable(k, tail, mode) ==
    Frame(24, EXPECTED_COLUMNS, LAMBDA j, i :
        IF j = HOUR_COL
        THEN (IF (i < k /\ ~tail) \/ (i >= 24 - k /\ tail)
              THEN PartialHour(mode, i) ELSE NaN)
        ELSE IF j = 0 THEN (IF i < 2 THEN Num(1) ELSE Num(0))
        ELSE BaseCell("full", j, i))

\* the sheets the model uploads
IsSheet(d) ==
    \/ \E v \in HeaderVariants : d = SchemaTable(24, 24, v, "three")
    \/ \E n \in Shapes, m \in Shapes, v \in SomeHeaderVariants, b \in {"full", "three"} :
          d = SchemaTable(n, m, v, b)
    \/ \E c \in 0..23, k \in 0..24 : d = PopulationTable(c, k, <<"head", Num(0), "full">>)
    \/ \E c \in 0..23, k \in SomeCounts :
          d = PopulationTable(c, k, <<"tail", Str(1), "three">>)
    \/ \E c \in SomeColumns, k \in 0..24 :
          d = PopulationTable(c, k, <<"tail", Str(1), "three">>)
    \/ \E h \in {1, 9, 24}, p \in 0..24 : d = StepTable(h, 0, p, <<1, Num(1), Num(2)>>)
    \/ \E h \in 1..24, c \in {0, 22} : \E p \in {12, 25 - h} :
          d = StepTable(h, c, p, <<1, Num(1), Num(2)>>)
    \/ \E h \in {1, 9}, c \in (0..22) \ {HOUR_COL}, p \in {5, 16}, mode \in StepModes :
          d = StepTable(h, c, p, mode)
    \/ \E r \in 0..23, s \in SeedCells : d = SeedTable(r, s, "full")
    \/ \E r \in {0, 5, 23}, s \in SeedCells : d = SeedTable(r, s, "seed")
    \/ \E h \in 1..24, skip \in 1..23 : d = BentTable(h, skip, 0)
    \/ \E h \in 1..24, dup \in 1..23 : d = BentTable(h, 0, dup)
    \/ \E skip \in {2, 7, 22}, dup \in 1..23 : d = BentTable(1, skip, dup)
    \/ \E skip \in 1..23, dup \in {3, 23} : d = BentTable(1, skip, dup)
    \/ \E h \in {1, 11}, p \in {0, 3, 13, 23}, x \in CorruptCells :
          d = CorruptTable(h, p, x)
    \/ \E k \in 0..23, m \in {<<FALSE, "down">>, <<TRUE, "same">>,
                              <<FALSE, "odd">>, <<TRUE, "high">>} :
          d = PartialTable(k, m[1], m[2])

---------------------------------------------------------------------------
(* Sessions, responses and the tail of upload_file. *)

\* 'user' not in session
NoUser == [none |-> TRUE]

\* session['user'] of a logged-in client
User(username) == [username |-> username]

NoData == [none |-> TRUE]

\* jsonify({'success': False, 'message': ...}), status
Failure(handler, status, message) ==
    [handler |-> handler, status |-> status, success |-> FALSE,
     message |-> message, detail |-> <<>>, service_status |-> "none",
     data |-> NoData]

\* jsonify({'success': True, 'data': ...}), with the default status 200
Success(handler, data) ==
    [handler |-> handler, status |-> 200, success |-> TRUE,
     message |-> "none", detail |-> <<>>, service_status |-> "none",
     data |-> data]

\* no request was answered yet
NoResponse == Failure("none", 0, "none")

\* os.remove(path)
Remove(files, path) == [x \in (DOMAIN files) \ {path} |-> files[x]]

\* a variant that rejects a result only when it has no preview
RejectedWithoutPreview(result) == "preview_data" \notin DOMAIN result

\* if not validation_result['is_valid']
Rejected(result) == ~result.is_valid

\* a variant that gives every entry the same identifier
SameId(store) == 1

\* str(uuid.uuid4()): an identifier no entry of the store has
uuid4(store) == Cardinality(DOMAIN store) + 1

\* a cell formatted as a time of day, which read_excel returns as a
\* datetime.time: no number, no numeral and not empty
Time == [k |-> "time", v |-> 1]

\* jsonify serializes numbers, NaN and texts; a datetime.time in the preview
\* makes it raise TypeError
Serializable(preview_data) ==
    \A i \in DOMAIN preview_data : \A col \in DOMAIN preview_data[i] :
        preview_data[i][col] # Time

\* the except clause of upload_file
UploadFailed == Failure("upload", 500, "Upload failed")

\* upload_file from file.save on: the sheet d is saved under file_id and
\* validated; an invalid sheet is removed and answered with its errors, a
\* valid one is stored and answered with its preview and statistics, or
\* with the failure of the except clause when jsonify raises
save_and_validate(d, file_id) ==
    LET saved == (file_id :> d) @@ temp_files
    IN  /\ data_validation' = DataValidation(d)
        /\ validation_result' = Return(d, data_validation')
        /\ IF Rejected(validation_result')
           THEN /\ temp_files' = Remove(saved, file_id)
                /\ uploaded_files' = uploaded_files
                /\ response' = [Failure("upload", 400, "Validation failed")
                                    EXCEPT !.detail = validation_result'.errors]
           ELSE /\ temp_files' = saved
                /\ uploaded_files' = (file_id :>
                        [filename |-> "sheet.xlsx", path |-> file_id,
                         user_id |-> session.username]) @@ uploaded_files
                /\ response' =
                      IF Serializable(validation_result'.preview_data)
                      THEN Success("upload",
                               [fileId |-> file_id,
                                fileName |-> "sheet.xlsx",
                                preview |-> validation_result'.preview_data,
                                statistics |-> validation_result'.statistics])
                      ELSE UploadFailed

---------------------------------------------------------------------------
(* The state machine: a sheet is uploaded, then validated. *)

Init ==
    /\ IsSheet(df)
    /\ pc = "uploaded"
    /\ data_validation = NoResult
    /\ validation_result = NoResult
    /\ session = User("analyst")
    /\ temp_files = (1 :> df)
    /\ uploaded_files = <<>>
    /\ prediction_results = <<>>
    /\ response = NoResponse
    /\ calls = <<>>
    /\ export_files = <<>>
    /\ requests = <<>>

\* upload_file: validation_result = validate_excel_structure(temp_path) and
\* what follows it
Validate ==
    /\ pc = "uploaded"
    /\ save_and_validate(df, 1)
    /\ pc' = "validated"
    /\ UNCHANGED <<df, session, prediction_results, calls, export_files, requests>>

Next == Validate

Spec == Init /\ [][Next]_vars

---------------------------------------------------------------------------
(* ml_api_client.py *)

Abs(v) == IF v < 0 THEN -v ELSE v

\* the distance between neighbouring float32 numbers at the magnitude a:
\* 1 below 2^24, doubled with every further bit
RECURSIVE Ulp(_)
Ulp(a) == IF a < 2^24 THEN 1 ELSE 2 * Ulp(a \div 2)

\* np.array(..., dtype=np.float32) of an integer: the nearest float32 number,
\* a tie going to the one with the even mantissa
Float32(v) ==
    LET a == Abs(v)
        u == Ulp(a)
        q == a \div u
        r == a % u
        m == IF 2 * r > u \/ (2 * r = u /\ q % 2 = 1) THEN (q + 1) * u ELSE q * u
    IN  IF v < 0 THEN -m ELSE m

\* float(x) of a cell: [ok, v]; float() of a text that is not a numeral
\* raises ValueError
float_of(c) ==
    CASE c.k = "num" -> [ok |-> TRUE, v |-> c.v]
      [] c.k = "numstr" -> [ok |-> TRUE, v |-> c.v]
      [] OTHER -> [ok |-> FALSE, v |-> 0]

\* a variant that takes numbers only and turns every text into 0.0
NumbersOnly(value) == IF value.k = "num" THEN value.v ELSE 0

\* the entry of numeric_row for one cell
numeric_entry(value) ==
    IF isna(value) \/ value = EmptyStr THEN 0
    ELSE IF float_of(value).ok THEN float_of(value).v
    ELSE 0

\* data_array.shape
Shape(data) ==
    <<Len(data), IF Len(data) = 0 THEN 0 ELSE Len(data[1])>>

\* [raised, data], data[i][j] being row i, column j
prepare_data_for_ml_api(d) ==
    IF RowCount(d) # 24 \/ ColCount(d) # 24
    THEN [raised |-> TRUE, data |-> <<>>]
    ELSE LET data_array ==
                 [i \in 1..RowCount(d) |->
                     [j \in 1..ColCount(d) |-> Float32(numeric_entry(d.data[j][i]))]]
         IN  IF Shape(data_array) # <<24, 24>>
             THEN [raised |-> TRUE, data |-> <<>>]
             ELSE [raised |-> FALSE, data |-> data_array]

\* what GET /healthz may do
ProbeOutcomes == {"ok", "not_ok", "http_error", "exception"}

\* a variant that looks at the HTTP status only, not at the body
HealthCheckStatusOnly(probe) == probe \in {"ok", "not_ok"}

\* True only for a 200 response whose body has the status "ok"
health_check(probe) == probe = "ok"

\* the 'forecast' of a payload: JSON null, or a list of n numbers
Null == [null |-> TRUE, values |-> <<>>]

Forecast(n) == [null |-> FALSE, values |-> [i \in 1..n |-> 200 + 10 * i]]

\* the lengths of the forecasts the service may return
ForecastLengths == {0, 23, 24, 25}

\* what POST /predict/<model> may do: a 200 response with a payload, another
\* status, or an exception of requests
PostOutcomes ==
    {[kind |-> "ok", success |-> TRUE, forecast |-> Forecast(n)] : n \in ForecastLengths}
    \cup {[kind |-> "ok", success |-> TRUE, forecast |-> Null],
          [kind |-> "ok", success |-> FALSE, forecast |-> Forecast(0)]}
    \cup {[kind |-> k, success |-> FALSE, forecast |-> Forecast(0)] :
             k \in {"http_error", "timeout", "connection_error", "exception"}}

\* the value of 'modelType' in a request: a JSON string, or a JSON list of
\* strings
Name(model) == [list |-> FALSE, names |-> <<model>>]
List(models) == [list |-> TRUE, names |-> models]

\* the keys of endpoint_map
endpoint_map == {"nbeats", "cnn-nbeats", "nbeats-cnn"}

\* {'success': False, 'error': ...}; posted tells whether requests.post was
\* called
MLFailure(error, posted) ==
    [success |-> FALSE, error |-> error, predictions |-> <<>>, posted |-> posted]

\* 'model_type not in endpoint_map' is true of an unknown name and raises
\* TypeError for a list, which is not hashable; both end in the last except
\* clause
make_prediction(data, model_type, post) ==
    IF Shape(data) # <<24, 24>> THEN MLFailure("Unexpected error", FALSE)
    ELSE IF model_type.list THEN MLFailure("Unexpected error", FALSE)
    ELSE IF model_type.names[1] \notin endpoint_map
    THEN MLFailure("Unexpected error", FALSE)
    ELSE CASE post.kind = "timeout" -> MLFailure("Request timeout", TRUE)
           [] post.kind = "connection_error" -> MLFailure("Cannot connect", TRUE)
           [] post.kind = "exception" -> MLFailure("Unexpected error", TRUE)
           [] post.kind = "http_error" -> MLFailure("HTTP error", TRUE)
           [] post.kind = "ok" ->
                IF ~post.success THEN MLFailure("ML API error", TRUE)
                ELSE IF post.forecast = Null THEN MLFailure("Unexpected error", TRUE)
                ELSE [success |-> TRUE, error |-> "none",
                      predictions |-> post.forecast.values, posted |-> TRUE]

---------------------------------------------------------------------------
(* generate_predictions *)

\* no sheet was read for the request
NoFrame == [nrows |-> 0, columns |-> <<>>, data |-> <<>>]

\* f"{hour:02d}:00"
Label(hour) == (IF hour < 10 THEN "0" ELSE "") \o ToString(hour) \o ":00"

\* model_accuracies.get(model_type, 90.0)
Accuracy(model_type) ==
    CASE model_type = Name("nbeats") -> Float(925, 10)
      [] model_type = Name("cnn-nbeats") -> Float(942, 10)
      [] model_type = Name("nbeats-cnn") -> Float(938, 10)
      [] OTHER -> Float(90, 1)

\* one call of a method of ml_client: its arguments, what the service did
\* (outcome, posted telling whether the request was sent), its result and
\* the number of values it returned
Call(fn, model_type, data, outcome, posted, result, returned) ==
    [fn |-> fn, model_type |-> model_type, data |-> data, outcome |-> outcome,
     posted |-> posted, result |-> result, returned |-> returned]

\* what a handler leaves: its response, the calls it made, the entry it
\* stored (NoData when none) and its local df
Outcome(resp, made, stored, d) ==
    [response |-> resp, calls |-> made, stored |-> stored, df |-> d]

\* the response to a failed probe
Unavailable ==
    [Failure("predict", 503, "ML prediction service is currently unavailable")
        EXCEPT !.service_status = "offline"]

\* the response to a forecast that has not 24 values
InvalidLength == Failure("predict", 500, "Invalid prediction length")

\* the response to a failed call of the service
CallFailure(error) ==
    [Failure("predict", 500, "ML prediction failed")
        EXCEPT !.detail = <<error>>, !.service_status = "error"]

\* the except clause of generate_predictions
PredictionFailed ==
    [Failure("predict", 500, "Prediction failed") EXCEPT !.service_status = "error"]

\* a variant that gives the lower bounds as whole numbers
ConfidenceMinWhole(predictions_array) ==
    [k \in DOMAIN predictions_array |-> Float((97 * predictions_array[k]) \div 100, 1)]

\* (predictions_array * 0.97).tolist() and (predictions_array * 1.03).tolist(),
\* the products as fractions
confidence_min(predictions_array) ==
    [k \in DOMAIN predictions_array |-> Float(97 * predictions_array[k], 100)]

confidence_max(predictions_array) ==
    [k \in DOMAIN predictions_array |-> Float(103 * predictions_array[k], 100)]

\* generate_predictions from the result of make_prediction on
answer(d, file_id, model_type, prediction_id, start_hour, called, prediction_result) ==
    LET raw_predictions == prediction_result.predictions
        hour_labels == [k \in 1..24 |-> Label((start_hour + (k - 1)) % 24)]
        predictions ==
            [values |-> raw_predictions,
             confidence_min |-> confidence_min(raw_predictions),
             confidence_max |-> confidence_max(raw_predictions),
             accuracy |-> Accuracy(model_type)]
    IN  IF ~prediction_result.success
        THEN Outcome(CallFailure(prediction_result.error), called, NoData, d)
        ELSE IF Len(raw_predictions) # 24
        THEN Outcome(InvalidLength, called, NoData, d)
        ELSE Outcome(
                 Success("predict",
                     [predictionId |-> prediction_id,
                      hours |-> hour_labels,
                      historical |-> to_numeric(Column(d, "Prethodna 24h")),
                      predictions |-> predictions.values,
                      confidenceMin |-> predictions.confidence_min,
                      confidenceMax |-> predictions.confidence_max,
                      accuracy |-> predictions.accuracy,
                      modelType |-> model_type,
                      startHour |-> start_hour,
                      serviceStatus |-> "online"]),
                 called,
                 [file_id |-> file_id, model_type |-> model_type,
                  predictions |-> predictions, user_id |-> session.username],
                 d)

---------------------------------------------------------------------------
(* export_predictions *)

\* a JSON null in the body of a request
None == [nan |-> FALSE, num |-> 0, den |-> 0]

\* the body of an export request a client builds from the data of a
\* prediction response: numbers stay numbers, NaN stays NaN
ExportBody(data) ==
    [startHour |-> data.startHour,
     historical |-> [k \in DOMAIN data.historical |->
                        IF isna(data.historical[k]) THEN FloatNaN
                        ELSE Float(data.historical[k].v, 1)],
     predictions |-> [k \in DOMAIN data.predictions |-> Float(data.predictions[k], 1)],
     confidenceMin |-> data.confidenceMin,
     confidenceMax |-> data.confidenceMax]

Dash == [text |-> "--", neg |-> FALSE, int |-> 0, frac |-> 0]

\* f"{val:.4f}": the sign, the integer part and the four decimals of the
\* number nearest to val (of two equally near the even one); 'nan' for NaN
Fixed4(val) ==
    IF val.nan THEN [text |-> "nan", neg |-> FALSE, int |-> 0, frac |-> 0]
    ELSE LET a == Abs(val.num)
             scaled == (a % val.den) * 10000
             down == scaled \div val.den
             rest == scaled % val.den
             frac == IF 2 * rest > val.den \/ (2 * rest = val.den /\ down % 2 = 1)
                     THEN down + 1 ELSE down
         IN  [text |-> ".4f", neg |-> val.num < 0,
              int |-> (a \div val.den) + (frac \div 10000), frac |-> frac % 10000]

\* f"{val:.4f}" if val is not None else "--"
Formatted(val) == IF val = None THEN Dash ELSE Fixed4(val)

\* f"{min_val:.4f}-{max_val:.4f}", "--" when one of them is None
Interval(min_val, max_val) ==
    IF min_val # None /\ max_val # None
    THEN [text |-> "interval", low |-> Fixed4(min_val), high |-> Fixed4(max_val)]
    ELSE [text |-> "--", low |-> Dash, high |-> Dash]

Shorter(a, b) == IF a < b THEN a ELSE b

\* pd.DataFrame of the four columns: it raises ValueError when they have not
\* all the length of the 24 hour labels
export_df(prediction_data) ==
    LET start_hour == prediction_data.startHour
        hour_labels == [k \in 1..24 |-> Label((start_hour + (k - 1)) % 24)]
        min_vals == prediction_data.confidenceMin
        max_vals == prediction_data.confidenceMax
        confidence_intervals ==
            [k \in 1..Shorter(Len(min_vals), Len(max_vals)) |->
                Interval(min_vals[k], max_vals[k])]
        historical_data == prediction_data.historical
        prediction_values == prediction_data.predictions
        formatted_historical ==
            [k \in DOMAIN historical_data |-> Formatted(historical_data[k])]
        formatted_predictions ==
            [k \in DOMAIN prediction_values |-> Formatted(prediction_values[k])]
    IN  [raised |-> \/ Len(formatted_historical) # 24
                    \/ Len(formatted_predictions) # 24
                    \/ Len(confidence_intervals) # 24,
         Sat |-> hour_labels,
         Prethodna |-> formatted_historical,
         Predikcija |-> formatted_predictions,
         Interval |-> confidence_intervals]

\* the formats export_predictions writes, and the extensions of their files
Extension(format_type) ==
    CASE format_type = "csv" -> "csv"
      [] format_type = "excel" -> "xlsx"
      [] format_type = "pdf" -> "txt"
      [] OTHER -> "none"

\* the seconds datetime.now() may show while the requests are served
Seconds == {1, 2}

\* f'predikcija_{timestamp}.csv' in the temporary directory; the timestamp
\* counts seconds
ExportPath(timestamp, format_type) ==
    [timestamp |-> timestamp, extension |-> Extension(format_type)]

\* what to_csv, to_excel or the text writer leave in the file
ExportFile(format_type, table) ==
    [title |-> format_type = "pdf", table |-> table]

\* the except clause of export_predictions
ExportFailed == Failure("export", 500, "Export failed")

\* export_predictions up to the file it writes: the response of a request
\* that ends before send_file (written FALSE), or the path and the file
Written(user, prediction_data, format_type, temp_path) ==
    IF user = NoUser
    THEN [written |-> FALSE, response |-> Failure("export", 401, "Not authenticated")]
    ELSE IF prediction_data = NoData
    THEN [written |-> FALSE, response |-> Failure("export", 400, "No data to export")]
    ELSE IF export_df(prediction_data).raised \/ Extension(format_type) = "none"
    THEN [written |-> FALSE, response |-> ExportFailed]
    ELSE [written |-> TRUE, temp_path |-> temp_path,
          file |-> ExportFile(format_type, export_df(prediction_data))]

\* send_file(temp_path, as_attachment=True, download_name=filename), from
\* the files of the temporary directory
send_file(files, temp_path) ==
    Success("export", [download_name |-> temp_path, file |-> files[temp_path]])

---------------------------------------------------------------------------
(* The service: one client logs in and out, uploads sheets, asks for      *)
(* predictions and exports them, each request handled as a whole.         *)

\* how many entries the two stores take together, and how many files
\* export_predictions writes
MaxStored == 2
MaxExports == 1

Stored == Cardinality(DOMAIN uploaded_files) + Cardinality(DOMAIN prediction_results)

\* the sheets the client uploads.  Valid: a full one whose consumption is a
\* large number in 12 rows and a text in the other 12, a sparse one with a
\* numeral as the lone hour seed, one whose first hour is a text, a full one
\* whose holiday flag is a time of day in every row.  Invalid: a text as the
\* lone hour seed, wrong population counts, a repeated hour, a missing row,
\* a renamed column.
ServiceSheets ==
    {StepTable(1, CONSUMPTION_COL, 12, <<1, Num(2^24 + 1), Str(1)>>),
     SeedTable(5, NumStr(7), "seed"),
     CorruptTable(1, 0, Str(1)),
     PopulationTable(HOUR_COL, 1, <<"tail", Str(1), "three">>),
     SchemaTable(24, 24, <<"ok", 0>>, "three"),
     BentTable(1, 0, 3),
     SchemaTable(24 - ShapeDelta, 24, <<"ok", 0>>, "full"),
     SchemaTable(24, 24, <<"rename", 4>>, "full"),
     PopulationTable(0, 24, <<"head", Time, "full">>)}

\* the file of an upload request that holds a sheet, or no sheet
FilesOf(file) == IF file = "excel" THEN ServiceSheets ELSE {NoFrame}

\* request.files: no file, an empty filename, another extension, or a sheet
FileKinds == {"none", "empty_name", "not_excel", "excel"}

\* the credentials of a login request
Credentials == {"missing", "wrong", "right"}

\* the values of 'modelType' in a request
ModelTypes ==
    {Name("nbeats"), Name("cnn-nbeats"), Name("lstm"),
     List(<<"nbeats", "cnn-nbeats">>)}

ServiceInit ==
    /\ df = NoFrame
    /\ pc = "idle"
    /\ data_validation = NoResult
    /\ validation_result = NoResult
    /\ session = NoUser
    /\ temp_files = <<>>
    /\ uploaded_files = <<>>
    /\ prediction_results = <<>>
    /\ response = NoResponse
    /\ calls = <<>>
    /\ export_files = <<>>
    /\ requests = <<>>

\* a handler that does not validate a sheet leaves no validation locals
NoValidation ==
    /\ pc' = "idle"
    /\ data_validation' = NoResult
    /\ validation_result' = NoResult

\* a variant that takes any credentials given
LoginUnchecked(credentials) ==
    /\ NoValidation
    /\ df' = NoFrame
    /\ calls' = <<>>
    /\ session' = IF credentials # "missing" THEN User("analyst") ELSE session
    /\ response' =
          CASE credentials = "missing" ->
                   Failure("login", 400, "Username and password are required")
            [] credentials = "wrong" ->
                   Failure("login", 401, "Invalid username or password")
            [] credentials = "right" ->
                   Success("login", [user |-> User("analyst")])
    /\ UNCHANGED <<temp_files, uploaded_files, prediction_results, export_files,
                   requests>>

login(credentials) ==
    /\ NoValidation
    /\ df' = NoFrame
    /\ calls' = <<>>
    /\ session' = IF credentials = "right" THEN User("analyst") ELSE session
    /\ response' =
          CASE credentials = "missing" ->
                   Failure("login", 400, "Username and password are required")
            [] credentials = "wrong" ->
                   Failure("login", 401, "Invalid username or password")
            [] credentials = "right" ->
                   Success("login", [user |-> User("analyst")])
    /\ UNCHANGED <<temp_files, uploaded_files, prediction_results, export_files,
                   requests>>

logout ==
    /\ NoValidation
    /\ df' = NoFrame
    /\ calls' = <<>>
    /\ session' = NoUser
    /\ response' = Success("logout", NoData)
    /\ UNCHANGED <<temp_files, uploaded_files, prediction_results, export_files,
                   requests>>

upload_file(file, d) ==
    /\ Stored < MaxStored
    /\ calls' = <<>>
    /\ UNCHANGED <<session, prediction_results, export_files, requests>>
    /\ IF session = NoUser \/ file # "excel"
       THEN /\ NoValidation
            /\ df' = NoFrame
            /\ response' =
                  IF session = NoUser THEN Failure("upload", 401, "Not authenticated")
                  ELSE CASE file = "none" -> Failure("upload", 400, "No file provided")
                         [] file = "empty_name" -> Failure("upload", 400, "No file selected")
                         [] file = "not_excel" ->
                                Failure("upload", 400, "File must be Excel format")
            /\ UNCHANGED <<temp_files, uploaded_files>>
       ELSE /\ df' = d
            /\ pc' = "validated"
            /\ save_and_validate(d, uuid4(uploaded_files))

\* the handler answers: its response, the calls it made, the entry it stored
\* and its local df
Respond(out) ==
    /\ response' = out.response
    /\ calls' = out.calls
    /\ df' = out.df
    /\ prediction_results' =
          IF out.stored = NoData THEN prediction_results
          ELSE ((Cardinality(DOMAIN prediction_results) + 1) :> out.stored)
                   @@ prediction_results

\* the service behaves in any way when it is probed and when it is called
generate_predictions(file_id, model_type) ==
    /\ Stored < MaxStored
    /\ NoValidation
    /\ UNCHANGED <<session, temp_files, uploaded_files, export_files, requests>>
    /\ IF session = NoUser
       THEN Respond(Outcome(Failure("predict", 401, "Not authenticated"),
                            <<>>, NoData, NoFrame))
       ELSE IF file_id \notin DOMAIN uploaded_files
       THEN Respond(Outcome(Failure("predict", 400, "Invalid or missing file"),
                            <<>>, NoData, NoFrame))
       ELSE \E d \in {temp_files[uploaded_files[file_id].path]} :
            \E probe \in ProbeOutcomes :
            LET healthy == health_check(probe)
                probed == <<Call("health_check", Name("none"), <<>>, probe,
                                 TRUE, healthy, 0)>>
                sat_values == SelectSeq(Column(d, "Sat"),
                                        LAMBDA c : ~isna(c) /\ c # EmptyStr)
                start_hour == IF Len(sat_values) > 0 THEN int_of(sat_values[1])
                              ELSE [ok |-> TRUE, v |-> 0]
            IN  IF ~healthy
                THEN Respond(Outcome(Unavailable, probed, NoData, d))
                ELSE IF KeyError(d) \/ ~start_hour.ok
                THEN Respond(Outcome(PredictionFailed, probed, NoData, d))
                ELSE \E ml \in {prepare_data_for_ml_api(d)} :
                     IF ml.raised
                     THEN Respond(Outcome(
                              Failure("predict", 400,
                                      "Failed to prepare data for ML model"),
                              probed, NoData, d))
                     ELSE \E post \in PostOutcomes :
                          \E prediction_result \in
                                 {make_prediction(ml.data, model_type, post)} :
                              Respond(answer(d, file_id, model_type,
                                  uuid4(prediction_results),
                                  start_hour.v,
                                  probed \o <<Call("make_prediction", model_type,
                                      ml.data,
                                      IF prediction_result.posted THEN post.kind
                                      ELSE "none",
                                      prediction_result.posted,
                                      prediction_result.success,
                                      Len(prediction_result.predictions))>>,
                                  prediction_result))

\* the bodies of the export requests of the client: none, the data of the
\* prediction it was just answered, and those data without the upper bounds
ExportBodies == {"none", "data", "cut"}

BodyOf(body) ==
    CASE body = "none" -> NoData
      [] body = "data" -> ExportBody(response.data)
      [] body = "cut" -> [ExportBody(response.data) EXCEPT !.confidenceMax = <<>>]

\* data.get('format', 'csv')
ExportFormats == {"csv", "excel", "pdf", "xml"}

export_predictions(prediction_data, format_type, timestamp) ==
    /\ Cardinality(DOMAIN export_files) < MaxExports
    /\ NoValidation
    /\ df' = NoFrame
    /\ calls' = <<>>
    /\ UNCHANGED <<session, temp_files, uploaded_files, prediction_results, requests>>
    /\ \E w \in {Written(session, prediction_data, format_type,
                          ExportPath(timestamp, format_type))} :
          IF w.written
          THEN /\ export_files' = (w.temp_path :> w.file) @@ export_files
               /\ response' = send_file(export_files', w.temp_path)
          ELSE /\ export_files' = export_files
               /\ response' = w.response

\* an export request of the client, who has data to send after a prediction
export_request(body, format_type, timestamp) ==
    /\ body # "none" => (response.handler = "predict" /\ response.success)
    /\ export_predictions(BodyOf(body), format_type, timestamp)

ServiceNext ==
    \/ \E credentials \in Credentials : login(credentials)
    \/ logout
    \/ \E file \in FileKinds : \E d \in FilesOf(file) : upload_file(file, d)
    \* the requests of the one client are served within one second
    \/ \E body \in ExportBodies, format_type \in ExportFormats :
       \E timestamp \in {Min(Seconds)} :
          export_request(body, format_type, timestamp)
    \/ \E file_id \in 0..MaxStored, model_type \in ModelTypes :
          generate_predictions(file_id, model_type)

Service == ServiceInit /\ [][ServiceNext]_vars

---------------------------------------------------------------------------
(* Exports: two callers send one export request each; a request writes    *)
(* its file, and sends it in a later step, so that the requests of the    *)
(* two callers interleave as they do in a threaded server.                *)

Callers == {1, 2}

\* a series of caller's own: 24 hours of history whose last value is last,
\* 24 forecast values and their bounds
SeriesOf(caller, last) ==
    [startHour |-> caller,
     historical |-> [k \in 1..24 |->
                        IF k = 24 THEN last ELSE Float(100 * caller + k, 1)],
     predictions |-> [k \in 1..24 |-> Float(1000 * caller + 10 * k, 1)],
     confidenceMin |-> [k \in 1..24 |-> Float(97 * (1000 * caller + 10 * k), 100)],
     confidenceMax |-> [k \in 1..24 |-> Float(103 * (1000 * caller + 10 * k), 100)]]

\* the bodies of a caller's export request: none, a series that ends with a
\* number, with NaN or with null, a series without upper bounds
BodiesOf(caller) ==
    {NoData,
     SeriesOf(caller, Float(7, 2)),
     SeriesOf(caller, FloatNaN),
     SeriesOf(caller, None),
     [SeriesOf(caller, None) EXCEPT !.confidenceMax = <<>>]}

\* a request not yet received
Idle(caller) ==
    [pc |-> "idle", session |-> User(IF caller = 1 THEN "analyst" ELSE "operator"),
     prediction_data |-> NoData, format_type |-> "none",
     temp_path |-> ExportPath(0, "none"), response |-> NoResponse]

ExportsInit ==
    /\ df = NoFrame
    /\ pc = "idle"
    /\ data_validation = NoResult
    /\ validation_result = NoResult
    /\ session = NoUser
    /\ temp_files = <<>>
    /\ uploaded_files = <<>>
    /\ prediction_results = <<>>
    /\ response = NoResponse
    /\ calls = <<>>
    /\ export_files = <<>>
    /\ requests = [caller \in Callers |-> Idle(caller)]

\* export_predictions up to the file written at temp_path
export_write(caller, prediction_data, format_type, timestamp) ==
    /\ requests[caller].pc = "idle"
    /\ \E w \in {Written(requests[caller].session, prediction_data, format_type,
                         ExportPath(timestamp, format_type))} :
          IF w.written
          THEN /\ export_files' = (w.temp_path :> w.file) @@ export_files
               /\ requests' = [requests EXCEPT ![caller] =
                      [@ EXCEPT !.pc = "written",
                                !.prediction_data = prediction_data,
                                !.format_type = format_type,
                                !.temp_path = w.temp_path]]
          ELSE /\ export_files' = export_files
               /\ requests' = [requests EXCEPT ![caller] =
                      [@ EXCEPT !.pc = "answered",
                                !.prediction_data = prediction_data,
                                !.format_type = format_type,
                                !.response = w.response]]
    /\ UNCHANGED <<df, pc, data_validation, validation_result, session, temp_files,
                   uploaded_files, prediction_results, response, calls>>

\* return send_file(temp_path, ...)
export_send(caller) ==
    /\ requests[caller].pc = "written"
    /\ requests' = [requests EXCEPT ![caller] =
           [@ EXCEPT !.pc = "answered",
                     !.response = send_file(export_files, requests[caller].temp_path)]]
    /\ UNCHANGED <<df, pc, data_validation, validation_result, session, temp_files,
                   uploaded_files, prediction_results, response, calls, export_files>>

ExportsNext ==
    \/ \E caller \in Callers : \E prediction_data \in BodiesOf(caller) :
       \E format_type \in ExportFormats, timestamp \in Seconds :
          export_write(caller, prediction_data, format_type, timestamp)
    \/ \E caller \in Callers : export_send(caller)

Exports == ExportsInit /\ [][ExportsNext]_vars

---------------------------------------------------------------------------
(* Vocabulary of the properties, stated on the sheet itself. *)

Validated == pc = "validated"

\* the sheet is 24 x 24 with the 24 names in their places
SchemaValid(d) ==
    /\ d.nrows = 24
    /\ Len(d.columns) = 24
    /\ \A k \in 1..24 : d.columns[k] = EXPECTED_COLUMNS[k]

\* the pattern validator ran
PatternsRan == Validated /\ "errors" \in DOMAIN data_validation

NonEmptyCell(c) == c # NaN /\ c # EmptyStr

\* population count of the column at position j (0-based)
Population(d, j) == Cardinality({i \in 1..d.nrows : NonEmptyCell(d.data[j + 1][i])})

\* how many entries of a list of errors satisfy P
HowMany(errors, P(_)) == Cardinality({k \in DOMAIN errors : P(errors[k])})

SchemaErrorTypes == {"rows", "columns", "name"}
SequenceErrorTypes == {"sequence", "inconsistent", "missing"}

\* C1: a sheet with a wrong row count, a wrong column count or a name out of
\* place is invalid, its errors are schema errors only, and the result holds
\* neither a preview nor statistics: nothing after the schema check has run.
C1_StructureShortCircuit ==
    (Validated /\ ~SchemaValid(df)) =>
        /\ validation_result.is_valid = FALSE
        /\ validation_result.errors # <<>>
        /\ \A k \in DOMAIN validation_result.errors :
               validation_result.errors[k].type \in SchemaErrorTypes
        /\ DOMAIN validation_result = {"is_valid", "errors"}
        /\ data_validation = NoResult

\* a 24 x 24 sheet with two names swapped whose columns hold 3 values each
C1_Witness ==
    /\ Validated
    /\ df.nrows = 24 /\ Len(df.columns) = 24
    /\ ~SchemaValid(df)
    /\ Population(df, 0) = 3
    /\ validation_result.is_valid = FALSE

\* C2: the schema checks accumulate: one row-count error iff rows # 24, one
\* column-count error iff columns # 24, one name error for each position
\* 0..23 that is missing or holds another name; no schema error otherwise.
C2_SchemaErrorsAccumulate ==
    Validated =>
        LET errors == validation_result.errors
        IN  /\ HowMany(errors, LAMBDA e : e.type = "rows")
                 = (IF df.nrows # 24 THEN 1 ELSE 0)
            /\ HowMany(errors, LAMBDA e : e.type = "rows" /\ e.n = df.nrows)
                 = (IF df.nrows # 24 THEN 1 ELSE 0)
            /\ HowMany(errors, LAMBDA e : e.type = "columns")
                 = (IF Len(df.columns) # 24 THEN 1 ELSE 0)
            /\ HowMany(errors, LAMBDA e : e.type = "columns" /\ e.n = Len(df.columns))
                 = (IF Len(df.columns) # 24 THEN 1 ELSE 0)
            /\ \A i \in 0..23 :
                 HowMany(errors, LAMBDA e : e.type = "name" /\ e.n = i + 1)
                   = (IF i >= Len(df.columns) \/ df.columns[i + 1] # EXPECTED_COLUMNS[i + 1]
                      THEN 1 ELSE 0)
            /\ HowMany(errors, LAMBDA e : e.type = "name" /\ e.n \notin 1..24) = 0
            /\ (HowMany(errors, LAMBDA e : e.type \in SchemaErrorTypes) = 0)
                 <=> SchemaValid(df)

\* the right names in another order, on a sheet one row short
C2_Witness ==
    /\ Validated
    /\ df.nrows = 23 /\ Len(df.columns) = 24
    /\ Range(df.columns) = Range(EXPECTED_COLUMNS)
    /\ Len(validation_result.errors) = 3

\* the population counts the specification allows for the column at position j
AllowedPopulation(j) ==
    IF j = 0 \/ j \in 5..22 THEN {1, 2, 24}
    ELSE IF j \in 1..4 THEN {1, 24}
    ELSE {24}

\* C3: for every column of a schema-valid sheet the pattern validator reports
\* exactly one population-count error, naming the column and its count k, iff
\* k is outside the column's allowed set, and none when k is inside it.
C3_PopulationCount ==
    PatternsRan =>
        \A j \in 0..23 :
            LET k == Population(df, j)
                bad == k \notin AllowedPopulation(j)
            IN  /\ HowMany(data_validation.errors,
                       LAMBDA e : e.type = "count" /\ e.col = EXPECTED_COLUMNS[j + 1])
                     = (IF bad THEN 1 ELSE 0)
                /\ HowMany(data_validation.errors,
                       LAMBDA e : e.type = "count" /\ e.col = EXPECTED_COLUMNS[j + 1]
                                  /\ e.n = k)
                     = (IF bad THEN 1 ELSE 0)

\* a temperature column holding the number 0 in three cells is reported with
\* count 3
C3_Witness ==
    /\ PatternsRan
    /\ Population(df, 22) = 3
    /\ \A i \in 1..24 : df.data[23][i] \in {NaN, Num(0)}
    /\ \E k \in DOMAIN data_validation.errors :
          /\ data_validation.errors[k].type = "count"
          /\ data_validation.errors[k].col = "Temp. sr Ct"
          /\ data_validation.errors[k].n = 3

---------------------------------------------------------------------------
(* The hour column and its days, stated on the sheet. *)

HourCell(d, i) == d.data[HOUR_COL + 1][i + 1]

\* every hour cell is a number or a numeral
HoursNumeric(d) == \A i \in 0..23 : HourCell(d, i).k \in {"num", "numstr"}

HourAt(d, i) == HourCell(d, i).v

\* row i is the last row of its day
ClosesDay(d, i) ==
    \/ HourAt(d, i) = 24
    \/ i = 23
    \/ (i < 23 /\ HourAt(d, i + 1) < HourAt(d, i))

\* the number of the day of each row, days counted from 1
DayNumbers(d) ==
    [i \in 0..23 |-> 1 + Cardinality({i2 \in 0..(i - 1) : ClosesDay(d, i2)})]

SAME_DAY_POSITIONS == (0..22) \ {HOUR_COL}

Image(f) == {f[i] : i \in DOMAIN f}

\* the distinct non-empty values of column j on a set of rows
ValuesOn(d, j, rows) ==
    {d.data[j + 1][i + 1] : i \in {i2 \in rows : NonEmptyCell(d.data[j + 1][i2 + 1])}}

C5_UncoercibleHourReported ==
    (/\ Validated
     /\ SchemaValid(df)
     /\ Population(df, HOUR_COL) = 24
     /\ \E i \in 0..23 : to_numeric_cell(HourCell(df, i)) = NaN)
    => (validation_result.is_valid = FALSE /\ validation_result.errors # <<>>)

\* the hours ascend by 1 (or wrap from 24 to 1) everywhere but at row s, where
\* exactly one hour is skipped
SingleSkipAt(d, s) ==
    /\ HoursNumeric(d)
    /\ \A i \in 0..23 : HourAt(d, i) \in 1..24
    /\ HourAt(d, s) = HourAt(d, s - 1) + 2
    /\ \A i \in (1..23) \ {s} :
          \/ HourAt(d, i) = HourAt(d, i - 1) + 1
          \/ (HourAt(d, i - 1) = 24 /\ HourAt(d, i) = 1)

\* C6: when one hour is skipped in a day that otherwise ascends by 1, exactly
\* one monotonicity error cites the hours before and after the skip and
\* exactly one gap error cites the skipped hour.
C6_SingleSkipReported ==
    PatternsRan =>
        \A s \in 1..23 :
            SingleSkipAt(df, s) =>
                LET errors == data_validation.errors
                IN  /\ HowMany(errors, LAMBDA e : e.type = "sequence") = 1
                    /\ HowMany(errors, LAMBDA e :
                           /\ e.type = "sequence"
                           /\ e.h1 = HourAt(df, s - 1)
                           /\ e.h2 = HourAt(df, s)) = 1
                    /\ HowMany(errors, LAMBDA e : e.type = "missing") = 1
                    /\ HowMany(errors, LAMBDA e :
                           /\ e.type = "missing"
                           /\ e.hours = << HourAt(df, s - 1) + 1 >>) = 1

\* the hour column is the run h, h+1, ..., 24, 1, ..., h-1
CyclicRun(d, h) ==
    \A i \in 0..23 :
        HourCell(d, i) = Num(IF h + i <= 24 THEN h + i ELSE h + i - 24)

\* C7: a cyclic run of hours yields no range, monotonicity or gap error, and
\* no consistency error for a same-day column that is constant, on its
\* non-empty cells, within the rows up to hour 24 and within the rows after.
C7_CyclicRunAccepted ==
    PatternsRan =>
        \A h \in 1..24 :
            CyclicRun(df, h) =>
                LET errors == data_validation.errors
                    first == 0..(24 - h)
                    second == (25 - h)..23
                IN  /\ HowMany(errors, LAMBDA e :
                           e.type \in {"range", "sequence", "missing"}) = 0
                    /\ \A j \in SAME_DAY_POSITIONS :
                          (/\ Cardinality(ValuesOn(df, j, first)) <= 1
                           /\ Cardinality(ValuesOn(df, j, second)) <= 1)
                          => HowMany(errors, LAMBDA e :
                                 /\ e.type = "inconsistent"
                                 /\ e.col = EXPECTED_COLUMNS[j + 1]) = 0

\* the run 9..24, 1..8 with a holiday flag that is 1 on the first day and 2 on
\* the second is valid
C7_Witness ==
    /\ PatternsRan
    /\ CyclicRun(df, 9)
    /\ ValuesOn(df, 0, 0..15) = {Num(1)}
    /\ ValuesOn(df, 0, 16..23) = {Num(2)}
    /\ validation_result.is_valid = TRUE

\* C8: for each day and each same-day column there is exactly one
\* inconsistency error, listing the distinct values, iff the non-empty cells of
\* the column on the day's rows hold more than one distinct value.
C8_SameDayConsistency ==
    (PatternsRan /\ HoursNumeric(df)) =>
        \A days \in {DayNumbers(df)}, errors \in {data_validation.errors} :
            /\ \A k \in DOMAIN errors :
                   errors[k].type = "inconsistent" =>
                       /\ errors[k].day \in Image(days)
                       /\ \E j \in SAME_DAY_POSITIONS :
                              errors[k].col = EXPECTED_COLUMNS[j + 1]
            /\ \A n \in Image(days), j \in SAME_DAY_POSITIONS :
                  \A values \in {ValuesOn(df, j, {i \in 0..23 : days[i] = n})} :
                      /\ HowMany(errors, LAMBDA e :
                              /\ e.type = "inconsistent"
                              /\ e.day = n
                              /\ e.col = EXPECTED_COLUMNS[j + 1])
                           = (IF Cardinality(values) > 1 THEN 1 ELSE 0)
                      /\ Cardinality(values) > 1 =>
                           \E k \in DOMAIN errors :
                              /\ errors[k].type = "inconsistent"
                              /\ errors[k].day = n
                              /\ errors[k].col = EXPECTED_COLUMNS[j + 1]
                              /\ errors[k].values = values

\* a holiday flag populated on every fifth row with 1, 1, 1, 1, 0 in one day
C8_Witness ==
    /\ PatternsRan
    /\ CyclicRun(df, 1)
    /\ Population(df, 0) = 5
    /\ \E k \in DOMAIN data_validation.errors :
          /\ data_validation.errors[k].type = "inconsistent"
          /\ data_validation.errors[k].col = "Sjutra praznik"
          /\ data_validation.errors[k].values = {Num(0), Num(1)}

---------------------------------------------------------------------------
(* The preview: fill_missing_values as the result shows it. *)

HasPreview == Validated /\ "preview_data" \in DOMAIN validation_result

PreviewCell(i, j) == validation_result.preview_data[i + 1][EXPECTED_COLUMNS[j + 1]]

\* C9: in every column but the hour and the consumption column each empty
\* cell takes the value of the nearest non-empty cell above it, or the empty
\* string when there is none, and each non-empty cell keeps its value; the
\* consumption column is not filled.
C9_ForwardFill ==
    HasPreview =>
        /\ \A j \in SAME_DAY_POSITIONS, i \in 0..23 :
              PreviewCell(i, j) =
                  (IF NonEmptyCell(df.data[j + 1][i + 1]) THEN df.data[j + 1][i + 1]
                   ELSE IF i = 0 THEN EmptyStr
                   ELSE PreviewCell(i - 1, j))
        /\ \A i \in 0..23 :
              PreviewCell(i, CONSUMPTION_COL) =
                  (IF NonEmptyCell(df.data[CONSUMPTION_COL + 1][i + 1])
                   THEN df.data[CONSUMPTION_COL + 1][i + 1] ELSE EmptyStr)

\* a column holding 1 at rows 0, 5, 10 and 15 and 0 at row 20
C9_Witness ==
    /\ HasPreview
    /\ Population(df, 22) = 5
    /\ df.data[23][1] = Num(1) /\ df.data[23][21] = Num(0)
    /\ df.data[23][20] = NaN /\ df.data[23][24] = NaN
    /\ PreviewCell(19, 22) = Num(1)
    /\ PreviewCell(23, 22) = Num(0)

\* C10: a single numeric hour seed s, at whatever row, makes the hour of row i
\* (s + i) mod 24; with any other population count the hour column keeps its
\* cells, the empty ones staying empty.
C10_HourExpansion ==
    (Validated /\ SchemaValid(df)) =>
        IF Population(df, HOUR_COL) = 1
        THEN LET r == CHOOSE i \in 0..23 : NonEmptyCell(HourCell(df, i))
             IN  HourCell(df, r).k \in {"num", "numstr"} =>
                    /\ HasPreview
                    /\ \A i \in 0..23 :
                          PreviewCell(i, HOUR_COL) = Num((HourAt(df, r) + i) % 24)
        ELSE /\ HasPreview
             /\ \A i \in 0..23 :
                   PreviewCell(i, HOUR_COL) =
                       (IF NonEmptyCell(HourCell(df, i)) THEN HourCell(df, i)
                        ELSE EmptyStr)

\* seed 10 at row 5: row 0 shows 10, row 14 shows 0, row 23 shows 9
C10_Witness ==
    /\ HasPreview
    /\ Population(df, HOUR_COL) = 1
    /\ HourCell(df, 5) = Num(10)
    /\ PreviewCell(0, HOUR_COL) = Num(10)
    /\ PreviewCell(14, HOUR_COL) = Num(0)
    /\ PreviewCell(23, HOUR_COL) = Num(9)

---------------------------------------------------------------------------
(* fill_missing_values applied to its own result. *)

\* the second call; an exception of the first call leaves nothing to refill
Refill(filled) == IF filled.raised THEN filled ELSE fill_missing_values(filled.df)

\* C11: for every schema-valid sheet, whatever its population counts, filling
\* the filled sheet again changes no cell: the second call returns the table
\* of the first (the one the preview shows) and raises exactly when the first
\* call does.
C11_FillIdempotent ==
    (Validated /\ SchemaValid(df)) =>
        \A once \in {fill_missing_values(df)} :
            /\ Refill(once) = once
            /\ ~once.raised =>
                  /\ HasPreview
                  /\ to_dict_records(Refill(once).df) = validation_result.preview_data

\* a lone hour seed 23 at row 0 above 23 empty rows, every other column but
\* the consumption holding its first cell only: the first call fills 23 rows
C11_Witness ==
    /\ HasPreview
    /\ Population(df, HOUR_COL) = 1 /\ HourCell(df, 0) = Num(23)
    /\ Population(df, 0) = 1
    /\ fill_missing_values(df).df # df
    /\ Refill(fill_missing_values(df)).df.data[HOUR_COL + 1][24] = Num(22)
    /\ Refill(fill_missing_values(df)).df.data[1][24] = Num(1)

---------------------------------------------------------------------------
(* The whole result of one validation. *)

\* C13: the result of validating a schema-valid sheet holds one population
\* count error for every column whose count is not allowed and every hour
\* range, sequence, consistency and gap error the pattern validator found:
\* the preview and the statistics computed afterwards drop none of them.
C13_ErrorsKeptTogether ==
    (PatternsRan /\ SchemaValid(df)) =>
        /\ \A j \in 0..23 :
              Population(df, j) \notin AllowedPopulation(j) =>
                  HowMany(validation_result.errors,
                      LAMBDA e : e.type = "count" /\ e.col = EXPECTED_COLUMNS[j + 1]) = 1
        /\ \A k \in DOMAIN data_validation.errors :
              data_validation.errors[k].type \in SequenceErrorTypes \cup {"range"} =>
                  \E m \in DOMAIN validation_result.errors :
                      validation_result.errors[m] = data_validation.errors[k]

\* no consumption cell of the sheet is a number or a numeral
NoConsumptionCoercible(d) ==
    \A i \in 1..d.nrows : to_numeric_cell(d.data[CONSUMPTION_COL + 1][i]) = NaN

\* C15: when no consumption cell can be coerced to a number, the statistics
\* of the result are 0 for the average, the peak, the minimum and the total.
C15_ZeroStatistics ==
    (/\ Validated
     /\ "statistics" \in DOMAIN validation_result
     /\ NoConsumptionCoercible(df)) =>
        /\ validation_result.statistics.avgConsumption = Float(0, 1)
        /\ validation_result.statistics.peakConsumption = Float(0, 1)
        /\ validation_result.statistics.minConsumption = Float(0, 1)
        /\ validation_result.statistics.totalConsumption = Float(0, 1)

---------------------------------------------------------------------------
(* The response of upload_file. *)

\* the schema check or the pattern validator found an error
AnyValidationError ==
    SchemaErrors(df) # <<>> \/ (PatternsRan /\ data_validation.errors # <<>>)

\* C12: the response to an upload holds a preview and statistics only when
\* validation found no error, and they are those of the validation result;
\* when a schema, population-count or sequence error exists the response is
\* a failure that carries the error messages of the result and neither
\* preview nor statistics, also when the result holds a preview, and the
\* sheet is not stored.
C12_PreviewOnlyWhenValid ==
    Validated =>
        /\ response.data # NoData =>
              /\ ~AnyValidationError
              /\ validation_result.errors = <<>>
              /\ response.success
              /\ response.data.preview = validation_result.preview_data
              /\ response.data.statistics = validation_result.statistics
        /\ AnyValidationError =>
              /\ ~response.success
              /\ response.status = 400
              /\ response.data = NoData
              /\ response.detail # <<>>
              /\ response.detail = validation_result.errors
              /\ uploaded_files = <<>>

\* a sheet with population-count errors only: the result holds the preview,
\* the response holds the errors
C12_Witness ==
    /\ HasPreview
    /\ data_validation.errors # <<>>
    /\ Len(validation_result.preview_data) = 24
    /\ response.status = 400
    /\ response.data = NoData
    /\ response.detail = data_validation.errors

---------------------------------------------------------------------------
(* Vocabulary of the prediction requests, stated on the log of calls. *)

\* the last request was a prediction request that reached the probe
Probed == Len(calls) >= 1 /\ calls[1].fn = "health_check"

\* ... and make_prediction was called in it
Called == Len(calls) = 2 /\ calls[2].fn = "make_prediction"

\* the probe did not answer 200 with the status ok
ProbeFailed == Probed /\ calls[1].outcome # "ok"

\* the request was sent to the service and failed: an error payload, another
\* HTTP status, a timeout or another exception of the transport
CallFailed == Called /\ calls[2].posted /\ ~calls[2].result

\* the service returned a forecast that has not 24 values
WrongLength == Called /\ calls[2].result /\ calls[2].returned # 24

\* C14: a cell that is not a number where a number is expected makes neither
\* a validation nor a prediction fail as a whole: the validation of a
\* schema-valid sheet never ends in the 'Failed to read' result, and a
\* prediction request that passed the probe never ends in the response of
\* the except clause.
C14_NonNumericRecovered ==
    /\ (Validated /\ SchemaValid(df)) => validation_result # ReadFailed
    /\ (Probed /\ ~ProbeFailed) => response # PredictionFailed

\* C19: a prediction call that timed out is answered with the
\* service-unavailable response (status 503, service_status 'offline').
C19_TimeoutIsUnavailable ==
    (Called /\ calls[2].outcome = "timeout") =>
        /\ response.status = Unavailable.status
        /\ response.service_status = Unavailable.service_status

\* C20: a failed probe, a failed call and a forecast of a wrong length are
\* answered with three different statuses.
C20_DistinctStatuses ==
    /\ ProbeFailed =>
          response.status \notin {CallFailure("none").status, InvalidLength.status}
    /\ CallFailed =>
          response.status \notin {Unavailable.status, InvalidLength.status}
    /\ WrongLength =>
          response.status \notin {Unavailable.status, CallFailure("none").status}

---------------------------------------------------------------------------
(* The matrix sent to the service. *)

Parseable(c) == c.k \in {"num", "numstr"}

\* m is the float32 number nearest to the integer v, for v below 2^25: v
\* itself up to 2^24, beyond that the nearest even number, of two equally
\* near ones the one whose half is even
IsFloat32Of(m, v) ==
    IF Abs(v) <= 2^24 THEN m = v
    ELSE /\ m % 2 = 0
         /\ Abs(m - v) <= 1
         /\ Abs(m - v) = 1 => (m \div 2) % 2 = 0

\* prepare_data_for_ml_api raises exactly for a sheet that is not 24 x 24,
\* and no prediction request fails for its data
RaisesOnShapeOnly ==
    /\ df # NoFrame =>
          (prepare_data_for_ml_api(df).raised <=> (df.nrows # 24 \/ Len(df.columns) # 24))
    /\ response.message # "Failed to prepare data for ML model"

\* C16 as claimed: the matrix is 24 x 24, holds 0.0 for every empty or
\* unparseable cell and for every parseable cell exactly its numeric value,
\* and nothing but the shape of the sheet makes the conversion raise.
C16_MatrixExact ==
    /\ RaisesOnShapeOnly
    /\ Called =>
          /\ Shape(calls[2].data) = <<24, 24>>
          /\ \A i \in 1..24, j \in 1..24 :
                calls[2].data[i][j] =
                    (IF Parseable(df.data[j][i]) THEN df.data[j][i].v ELSE 0)

\* C16: the matrix is 24 x 24, holds 0.0 for every empty or unparseable cell
\* and for every parseable cell the float32 number nearest to its numeric
\* value, and nothing but the shape of the sheet makes the conversion raise.
C16_MatrixFloat32 ==
    /\ RaisesOnShapeOnly
    /\ Called =>
          /\ Shape(calls[2].data) = <<24, 24>>
          /\ \A i \in 1..24, j \in 1..24 :
                IF Parseable(df.data[j][i])
                THEN IsFloat32Of(calls[2].data[i][j], df.data[j][i].v)
                ELSE calls[2].data[i][j] = 0

\* the consumption 16777217 of row 0 is sent as 16777216, the text of row 23
\* as 0
C16_Witness ==
    /\ Called
    /\ df.data[CONSUMPTION_COL + 1][1] = Num(16777217)
    /\ calls[2].data[1][CONSUMPTION_COL + 1] = 16777216
    /\ df.data[CONSUMPTION_COL + 1][24] = Str(1)
    /\ calls[2].data[24][CONSUMPTION_COL + 1] = 0
    /\ Shape(calls[2].data) = <<24, 24>>

---------------------------------------------------------------------------
(* The probe before the call. *)

\* C18: in every prediction request make_prediction is called only after
\* the probe of the same request answered healthy; when the probe fails the
\* request is answered with the service-unavailable response, make_prediction
\* is not called and no prediction is stored.
C18_ProbeGatesPrediction ==
    [][/\ \A k \in DOMAIN calls' :
             calls'[k].fn = "make_prediction" =>
                 /\ k = 2
                 /\ calls'[1].fn = "health_check"
                 /\ calls'[1].outcome = "ok"
       /\ (Len(calls') >= 1 /\ calls'[1].fn = "health_check"
              /\ calls'[1].outcome # "ok") =>
                 /\ response' = Unavailable
                 /\ Len(calls') = 1
                 /\ prediction_results' = prediction_results]_vars

\* a stored file, a probe answered 200 with another status than ok
C18_Witness ==
    /\ ProbeFailed
    /\ calls[1].outcome = "not_ok"
    /\ DOMAIN uploaded_files # {}
    /\ response = Unavailable
    /\ Len(calls) = 1
    /\ DOMAIN prediction_results = {}

---------------------------------------------------------------------------
(* The day-groups of a fully populated numeric hour column. *)

\* the groups validate_hour_sequence_and_consistency builds for the sheet
DayGroupsOf(d) == DayGroups(to_numeric(Column(d, "Sat")))

\* the rows of a group, the hours of a group
GroupRows(day_rows) == [n \in DOMAIN day_rows |-> day_rows[n][1]]
GroupHours(day_rows) == [n \in DOMAIN day_rows |-> day_rows[n][2]]

\* C24: for a fully populated numeric hour column the day-groups are
\* non-empty, hold every row 0..23 exactly once, in row order and with its
\* hour (so each group is a contiguous run of rows), and a group ends at row
\* i exactly when hour[i] = 24, hour[i+1] < hour[i] or i = 23.
C24_DayGroupsPartition ==
    (PatternsRan /\ HoursNumeric(df)) =>
        LET day_groups == DayGroupsOf(df)
        IN  /\ \A k \in DOMAIN day_groups : day_groups[k] # <<>>
            /\ Concat(day_groups) = [n \in 1..24 |-> <<n - 1, HourAt(df, n - 1)>>]
            /\ \A i \in 0..23 :
                  ClosesDay(df, i) <=>
                      \E k \in DOMAIN day_groups :
                          day_groups[k][Len(day_groups[k])][1] = i

\* three groups: one closed by a fall of the hour from a value other than
\* 24, one closed by hour 24, the last closed by the end of the sheet
C24_Witness ==
    /\ PatternsRan
    /\ HoursNumeric(df)
    /\ Len(DayGroupsOf(df)) = 3
    /\ \E i \in 0..22 : HourAt(df, i) # 24 /\ HourAt(df, i + 1) < HourAt(df, i)
    /\ \E i \in 0..22 : HourAt(df, i) = 24
    /\ HourAt(df, 23) # 24

\* the monotonicity errors, the gap errors reported for day number k
SequenceErrorsOf(k) ==
    SelectSeq(data_validation.errors, LAMBDA e : e.type = "sequence" /\ e.day = k)
GapErrorsOf(k) ==
    SelectSeq(data_validation.errors, LAMBDA e : e.type = "missing" /\ e.day = k)

\* C25: within every day-group the hours never fall from row to row and no
\* row but the last holds hour 24; so no two adjacent rows of a group hold
\* 24 and 1 (the exemption of the monotonicity check is never used: every
\* step of a group other than +1 is reported), every monotonicity error
\* cites a repeated hour or a jump forward by more than 1, and a fall of the
\* hour between adjacent rows is a day boundary that yields no error.
C25_NoDecreaseInGroup ==
    (PatternsRan /\ HoursNumeric(df)) =>
        LET day_groups == DayGroupsOf(df)
        IN  /\ \A k \in DOMAIN day_groups :
                  LET hours == GroupHours(day_groups[k])
                  IN  /\ \A n \in 1..(Len(hours) - 1) :
                            /\ hours[n] <= hours[n + 1]
                            /\ hours[n] # 24
                            /\ ~(hours[n] = 24 /\ hours[n + 1] = 1)
                      /\ Len(SequenceErrorsOf(k)) =
                            Cardinality({n \in 1..(Len(hours) - 1) :
                                            hours[n + 1] # hours[n] + 1})
            /\ \A j \in DOMAIN data_validation.errors :
                  LET e == data_validation.errors[j]
                  IN  e.type = "sequence" => (e.h2 = e.h1 \/ e.h2 > e.h1 + 1)
            /\ \A i \in 0..22 :
                  HourAt(df, i + 1) < HourAt(df, i) =>
                      /\ DayNumbers(df)[i + 1] = DayNumbers(df)[i] + 1
                      /\ \A j \in DOMAIN data_validation.errors :
                            data_validation.errors[j].rows # <<i + 1, i + 2>>

\* the hour falls from 13 to 0 without an error, while the jump from 0 to 15
\* and a repeated hour are reported
C25_Witness ==
    /\ PatternsRan
    /\ HoursNumeric(df)
    /\ \E i \in 0..22 :
          /\ HourAt(df, i) # 24
          /\ HourAt(df, i + 1) < HourAt(df, i)
          /\ \E j \in DOMAIN data_validation.errors :
                LET e == data_validation.errors[j]
                IN  e.type = "sequence" /\ e.rows = <<i + 2, i + 3>> /\ e.h2 > e.h1 + 1

\* C26: a gap error is reported for a day-group only when the number of its
\* hours is max - min + 1 and an hour is repeated in it, and then a
\* monotonicity error is reported for the same group; a group whose hours
\* rise strictly gets no gap error.
C26_GapOnlyWithRepeat ==
    PatternsRan =>
        /\ (\E j \in DOMAIN data_validation.errors :
                data_validation.errors[j].type = "missing") => HoursNumeric(df)
        /\ HoursNumeric(df) =>
              LET day_groups == DayGroupsOf(df)
              IN  /\ \A j \in DOMAIN data_validation.errors :
                        data_validation.errors[j].type = "missing" =>
                            data_validation.errors[j].day \in DOMAIN day_groups
                  /\ \A k \in DOMAIN day_groups :
                        LET hours == GroupHours(day_groups[k])
                            strict == \A n \in 1..(Len(hours) - 1) :
                                          hours[n] < hours[n + 1]
                        IN  /\ GapErrorsOf(k) # <<>> =>
                                  /\ Len(GapErrorsOf(k)) = 1
                                  /\ Len(hours) =
                                        Max(Range(hours)) - Min(Range(hours)) + 1
                                  /\ Cardinality(Range(hours)) < Len(hours)
                                  /\ SequenceErrorsOf(k) # <<>>
                            /\ strict => GapErrorsOf(k) = <<>>

\* a day with one hour left out and another repeated: the gap error names
\* the hour left out, next to the monotonicity errors of the same day
C26_Witness ==
    /\ PatternsRan
    /\ HoursNumeric(df)
    /\ \E k \in DOMAIN DayGroupsOf(df) :
          /\ Len(GapErrorsOf(k)) = 1
          /\ Len(GapErrorsOf(k)[1].hours) = 1
          /\ GapErrorsOf(k)[1].hours[1] \notin Range(GroupHours(DayGroupsOf(df)[k]))
          /\ Len(SequenceErrorsOf(k)) = 2

---------------------------------------------------------------------------
(* The confidence band. *)

\* the last request was a prediction request answered with a forecast
Predicted == response.handler = "predict" /\ response.success

\* x is the fraction p / q of the number v
IsFractionOf(x, p, q, v) == ~x.nan /\ x.den > 0 /\ x.num * q = p * v * x.den

\* C21: a successful prediction returns 24 values, 24 lower bounds and 24
\* upper bounds, and at every index the lower bound is 0.97 times and the
\* upper bound 1.03 times the value at that index; the stored result holds
\* the same three sequences.
C21_ConfidenceBand ==
    Predicted =>
        LET data == response.data
        IN  /\ Len(data.predictions) = 24
            /\ Len(data.confidenceMin) = 24
            /\ Len(data.confidenceMax) = 24
            /\ \A k \in 1..24 :
                  /\ IsFractionOf(data.confidenceMin[k], 97, 100, data.predictions[k])
                  /\ IsFractionOf(data.confidenceMax[k], 103, 100, data.predictions[k])
            /\ data.predictionId \in DOMAIN prediction_results
            /\ LET predictions == prediction_results[data.predictionId].predictions
               IN  /\ predictions.values = data.predictions
                   /\ predictions.confidence_min = data.confidenceMin
                   /\ predictions.confidence_max = data.confidenceMax

\* the forecast 210, 220, ..., 440: the first band is 203.7 to 216.3
C21_Witness ==
    /\ Predicted
    /\ response.data.predictions[1] = 210
    /\ response.data.predictions[24] = 440
    /\ response.data.confidenceMin[1] = Float(20370, 100)
    /\ response.data.confidenceMax[1] = Float(21630, 100)
    /\ response.data.confidenceMax[24] = Float(45320, 100)

---------------------------------------------------------------------------
(* The stores and the session across requests. *)

\* every entry of the store is an entry of the later store
Kept(store, later) == \A k \in DOMAIN store : k \in DOMAIN later /\ later[k] = store[k]

\* the identifiers the later store has and the store has not
Gained(store, later) == (DOMAIN later) \ (DOMAIN store)

\* C22: no request overwrites, modifies or removes an entry of
\* uploaded_files or prediction_results, nor the saved file an entry of
\* uploaded_files names; an entry is created under an identifier the store
\* did not hold, by the upload or prediction request that returns this
\* identifier, one entry at most in a request.
C22_StoresAppendOnly ==
    [][/\ Kept(uploaded_files, uploaded_files')
       /\ Kept(prediction_results, prediction_results')
       /\ \A k \in DOMAIN uploaded_files :
             /\ uploaded_files[k].path \in DOMAIN temp_files'
             /\ temp_files'[uploaded_files[k].path] = temp_files[uploaded_files[k].path]
       /\ Cardinality(Gained(uploaded_files, uploaded_files')) <= 1
       /\ Cardinality(Gained(prediction_results, prediction_results')) <= 1
       /\ \A k \in Gained(uploaded_files, uploaded_files') :
             /\ response'.handler = "upload"
             /\ response'.success => response'.data.fileId = k
       /\ \A k \in Gained(prediction_results, prediction_results') :
             /\ response'.handler = "predict"
             /\ response'.success
             /\ response'.data.predictionId = k]_vars

\* two different sheets are stored, the second by a request that found the
\* first one stored
C22_Witness ==
    /\ Cardinality(DOMAIN uploaded_files) = 2
    /\ \E k1, k2 \in DOMAIN uploaded_files :
          temp_files[uploaded_files[k1].path] # temp_files[uploaded_files[k2].path]
    /\ response.handler = "upload"
    /\ response.success

\* C27: uploaded_files changes only by gaining one entry, in an upload that
\* is authenticated, carries an Excel file and passes the validation;
\* prediction_results changes only by gaining one entry, in a prediction
\* that is authenticated, names a stored file, passes the probe and receives
\* a successful forecast of 24 values; a request answered with an error
\* leaves both stores as they were, and a failed validation leaves no saved
\* file.
C27_StoresFrame ==
    [][/\ uploaded_files' # uploaded_files =>
             /\ Kept(uploaded_files, uploaded_files')
             /\ Cardinality(Gained(uploaded_files, uploaded_files')) = 1
             /\ session # NoUser
             /\ \E d \in ServiceSheets : upload_file("excel", d)
             /\ validation_result'.is_valid
       /\ prediction_results' # prediction_results =>
             /\ Kept(prediction_results, prediction_results')
             /\ Cardinality(Gained(prediction_results, prediction_results')) = 1
             /\ session # NoUser
             /\ \A k \in Gained(prediction_results, prediction_results') :
                   prediction_results'[k].file_id \in DOMAIN uploaded_files
             /\ Len(calls') = 2
             /\ calls'[1].fn = "health_check"
             /\ calls'[1].outcome = "ok"
             /\ calls'[2].result
             /\ calls'[2].returned = 24
       /\ ~response'.success =>
             /\ uploaded_files' = uploaded_files
             /\ prediction_results' = prediction_results
       /\ (response'.handler = "upload" /\ pc' = "validated"
              /\ ~validation_result'.is_valid) => temp_files' = temp_files]_vars

---------------------------------------------------------------------------
(* Concurrent export requests. *)

\* the file a request asked for: its own series in its own format
OwnFile(request) ==
    ExportFile(request.format_type, export_df(request.prediction_data))

\* C23: whatever the interleaving of the export requests of two callers,
\* the file each caller is sent holds the series of its own request.
C23_ExportsIsolated ==
    \A caller \in DOMAIN requests :
        (requests[caller].pc = "answered" /\ requests[caller].response.success) =>
            requests[caller].response.data.file = OwnFile(requests[caller])

====
